---- MODULE Spec2Model ----
(***************************************************************************)
(* Selective-repeat endpoints of src/sr.c (sender A, receiver B) over the  *)
(* lossy FIFO channel of the network emulator.                             *)
(*                                                                         *)
(* The static objects of sr.c are modelled as bytes of one memory image.   *)
(* The arrays are declared with WINDOWSIZE elements and indexed with       *)
(* sequence numbers modulo SEQSPACE = WINDOWSIZE + 1, so element           *)
(* [WINDOWSIZE] is read and written: where that access lands depends on    *)
(* how the build lays the objects out, and the layout is chosen in Init.   *)
(***************************************************************************)
EXTENDS Integers, Sequences, FiniteSets, TLC

VARIABLES layout, mem, timerA, window_full, total_ACKs_received,
          packets_resent, chanAB, chanBA, accepted, delivered

vars == <<layout, mem, timerA, window_full, total_ACKs_received,
          packets_resent, chanAB, chanBA, accepted, delivered>>

(***************************************************************************)
(* Program constants                                                       *)
(***************************************************************************)
WINDOWSIZE == 6
SEQSPACE == 7
NOTINUSE == -1
PAYLOADLEN == 20
INTSIZE == 4
PKTSIZE == 3 * INTSIZE + PAYLOADLEN

(***************************************************************************)
(* Bounds of the model                                                     *)
(***************************************************************************)
MaxMsgs == 7
MaxDrops == 1
MaxResent == 2
MaxChan == 1

(***************************************************************************)
(* C arithmetic and byte-addressed memory (little endian, 32-bit int).     *)
(* The image is kept as rows of PKTSIZE bytes: byte a is m[a \div PKTSIZE] *)
(* [a % PKTSIZE].                                                          *)
(***************************************************************************)
CRem(a, n) == IF a >= 0 THEN a % n ELSE -((-a) % n)

ByteOf(v, k) ==
  CASE k = 0 -> v % 256
    [] k = 1 -> (v \div 256) % 256
    [] k = 2 -> (v \div 65536) % 256
    [] k = 3 -> (v \div 16777216) % 256

Load8(m, a) == m[a \div PKTSIZE][a % PKTSIZE]

Store8(m, a, v) == [m EXCEPT ![a \div PKTSIZE][a % PKTSIZE] = v % 256]

Load32(m, a) ==
  Load8(m, a) + 256 * Load8(m, a + 1) + 65536 * Load8(m, a + 2)
  + 16777216 * (IF Load8(m, a + 3) >= 128 THEN Load8(m, a + 3) - 256
                ELSE Load8(m, a + 3))

Store32(m, a, v) ==
  Store8(Store8(Store8(Store8(m, a, ByteOf(v, 0)), a + 1, ByteOf(v, 1)),
                a + 2, ByteOf(v, 2)), a + 3, ByteOf(v, 3))

\* struct pkt { int seqnum; int acknum; int checksum; char payload[20]; }
PktBytes(p) ==
  [k \in 0..(PKTSIZE - 1) |->
     IF k < INTSIZE THEN ByteOf(p.seqnum, k)
     ELSE IF k < 2 * INTSIZE THEN ByteOf(p.acknum, k - INTSIZE)
     ELSE IF k < 3 * INTSIZE THEN ByteOf(p.checksum, k - 2 * INTSIZE)
     ELSE p.payload[k - 3 * INTSIZE + 1]]

LoadPkt(m, a) ==
  [seqnum |-> Load32(m, a), acknum |-> Load32(m, a + INTSIZE),
   checksum |-> Load32(m, a + 2 * INTSIZE),
   payload |-> [i \in 1..PAYLOADLEN |-> Load8(m, a + 3 * INTSIZE + i - 1)]]

\* the bytes of p stored from address a on, from the k-th byte
RECURSIVE StoreBytes(_, _, _, _)
StoreBytes(m, a, bytes, k) ==
  IF k = PKTSIZE THEN m
  ELSE StoreBytes(Store8(m, a + k, bytes[k]), a, bytes, k + 1)

StorePkt(m, a, p) ==
  IF a % PKTSIZE = 0 THEN [m EXCEPT ![a \div PKTSIZE] = PktBytes(p)]
  ELSE StoreBytes(m, a, PktBytes(p), 0)

(***************************************************************************)
(* Object layouts.  "declared": the objects in declaration order, each at  *)
(* its alignment (gcc -O0, x86-64).  "reversed": the same objects in       *)
(* reverse order (gcc -O2).  "padded": every array followed by one unused  *)
(* element of slack.                                                       *)
(***************************************************************************)
Layouts == {"declared", "reversed", "padded"}

Addr ==
  [declared |-> [A_window |-> 0, A_acked |-> 192, A_timer_running |-> 198,
                 A_base |-> 204, A_nextseq |-> 208, B_buffer |-> 224,
                 B_received |-> 416, B_base |-> 424, rows |-> 14],
   reversed |-> [B_base |-> 0, B_received |-> 4, B_buffer |-> 32,
                 A_nextseq |-> 224, A_base |-> 228, A_timer_running |-> 232,
                 A_acked |-> 238, A_window |-> 256, rows |-> 15],
   padded |-> [A_window |-> 0, A_acked |-> 224, A_timer_running |-> 232,
               A_base |-> 240, A_nextseq |-> 244, B_buffer |-> 256,
               B_received |-> 480, B_base |-> 488, rows |-> 16]]

\* addresses of the objects under the layout of the run
aWindow(i) == Addr[layout].A_window + PKTSIZE * i
aAcked(i) == Addr[layout].A_acked + i
aTimerRunning(i) == Addr[layout].A_timer_running + i
aBase == Addr[layout].A_base
aNextseq == Addr[layout].A_nextseq
bBuffer(i) == Addr[layout].B_buffer + PKTSIZE * i
bReceived(i) == Addr[layout].B_received + i
bBase == Addr[layout].B_base

\* the objects as the program reads them
A_base == Load32(mem, aBase)
A_nextseq == Load32(mem, aNextseq)
A_acked(i) == Load8(mem, aAcked(i))
A_timer_running(i) == Load8(mem, aTimerRunning(i))
A_window(i) == LoadPkt(mem, aWindow(i))
B_base == Load32(mem, bBase)
B_received(i) == Load8(mem, bReceived(i))
B_buffer(i) == LoadPkt(mem, bBuffer(i))

(***************************************************************************)
(* Checksum                                                                *)
(***************************************************************************)
\* for (i = 0; i < 20; i++) sum += (unsigned char)p.payload[i];
SumBytes(payload) ==
  payload[1] + payload[2] + payload[3] + payload[4] + payload[5]
  + payload[6] + payload[7] + payload[8] + payload[9] + payload[10]
  + payload[11] + payload[12] + payload[13] + payload[14] + payload[15]
  + payload[16] + payload[17] + payload[18] + payload[19] + payload[20]

ComputeChecksum_NoAcknum(p) == p.seqnum + SumBytes(p.payload)

ComputeChecksum(p) == p.seqnum + p.acknum + SumBytes(p.payload)

IsCorrupted(p) == p.checksum /= ComputeChecksum(p)

MkPkt(seq, ack, payload) ==
  LET p == [seqnum |-> seq, acknum |-> ack, checksum |-> 0, payload |-> payload]
  IN [p EXCEPT !.checksum = ComputeChecksum(p)]

Zeros == [i \in 1..PAYLOADLEN |-> 0]

(***************************************************************************)
(* Sender A                                                                *)
(***************************************************************************)
\* A_init / B_init: statics are zero-initialised, the init functions store
\* zeros again.
InitMem(l) == [row \in 0..(Addr[l].rows - 1) |-> [k \in 0..(PKTSIZE - 1) |-> 0]]

\* The result of a handler call on memory m: the memory it leaves, the units
\* it passed to tolayer3 (sent) with the logical position each was sent for
\* (pos), its starttimer/stoptimer calls, its increments of window_full,
\* total_ACKs_received and packets_resent, the payloads it passed to
\* tolayer5 (dlv) and the array indices it used (idx).
Result(m) ==
  [mem |-> m, sent |-> <<>>, pos |-> <<>>, timer |-> <<>>,
   full |-> 0, acks |-> 0, resent |-> 0, dlv |-> <<>>, idx |-> {}]

\* the body of A_output when the window has room
AcceptMessage(m, message) ==
  LET seq == CRem(Load32(m, aNextseq), SEQSPACE)
      p == MkPkt(seq, NOTINUSE, message)
      m1 == StorePkt(m, aWindow(seq), p)
      m2 == Store8(m1, aAcked(seq), 0)
      running == Load8(m2, aTimerRunning(seq)) /= 0
      m3 == IF running THEN m2 ELSE Store8(m2, aTimerRunning(seq), 1)
      m4 == Store32(m3, aNextseq, Load32(m3, aNextseq) + 1)
  IN [Result(m4) EXCEPT !.sent = <<p>>, !.pos = <<Load32(m, aNextseq)>>,
                        !.timer = IF running THEN <<>> ELSE <<"start">>,
                        !.idx = {seq}]

\* A_output with the window test admitting one unit too many
A_output_OffByOne(m, message) ==
  IF Load32(m, aNextseq) <= Load32(m, aBase) + WINDOWSIZE
  THEN AcceptMessage(m, message)
  ELSE [Result(m) EXCEPT !.full = 1]

A_output(m, message) ==
  IF Load32(m, aNextseq) < Load32(m, aBase) + WINDOWSIZE
  THEN AcceptMessage(m, message)
  ELSE [Result(m) EXCEPT !.full = 1]

\* for (i = A_base; i < A_nextseq; i++) if (ack == (i % SEQSPACE)) ... break;
\* the first i of the loop that matches, or the i the loop ends with
RECURSIVE AckScan(_, _, _)
AckScan(m, ack, i) ==
  IF i >= Load32(m, aNextseq) THEN i
  ELSE IF ack = CRem(i, SEQSPACE) THEN i
  ELSE AckScan(m, ack, i + 1)

\* while (A_acked[A_base % SEQSPACE]) { A_acked[A_base % SEQSPACE] = 0; A_base++; }
RECURSIVE SlideBase(_)
SlideBase(r) ==
  LET b == CRem(Load32(r.mem, aBase), SEQSPACE)
  IN IF Load8(r.mem, aAcked(b)) /= 0
     THEN SlideBase([r EXCEPT !.mem = Store32(Store8(r.mem, aAcked(b), 0), aBase,
                                              Load32(Store8(r.mem, aAcked(b), 0), aBase) + 1),
                              !.idx = @ \cup {b}])
     ELSE [r EXCEPT !.idx = @ \cup {b}]

\* the body of A_input for a unit that passed the checksum test
ProcessAck(m, packet) ==
  LET ack == packet.acknum
      i == AckScan(m, ack, Load32(m, aBase))
  IN IF i >= Load32(m, aNextseq) THEN Result(m)
     ELSE IF Load8(m, aAcked(ack)) /= 0
          THEN [Result(m) EXCEPT !.idx = {ack}]
          ELSE LET m1 == Store8(m, aAcked(ack), 1)
                   running == Load8(m1, aTimerRunning(ack)) /= 0
                   m2 == IF running
                         THEN Store8(m1, aTimerRunning(ack), 0)
                         ELSE m1
               IN SlideBase([Result(m2) EXCEPT
                               !.timer = IF running THEN <<"stop">> ELSE <<>>,
                               !.acks = 1, !.idx = {ack}])

\* A_input without the checksum test
A_input_Unchecked(m, packet) == ProcessAck(m, packet)

A_input(m, packet) ==
  IF IsCorrupted(packet) THEN Result(m) ELSE ProcessAck(m, packet)

\* for (i = A_base; i < A_nextseq; i++) { idx = i % SEQSPACE; if (!A_acked[idx]) ... }
\* r accumulates the result of the iterations before i
RECURSIVE ResendLoop(_, _)
ResendLoop(r, i) ==
  IF i >= Load32(r.mem, aNextseq) THEN r
  ELSE LET idx == CRem(i, SEQSPACE)
       IN IF Load8(r.mem, aAcked(idx)) = 0
          THEN ResendLoop(
                 [r EXCEPT !.sent = Append(@, LoadPkt(r.mem, aWindow(idx))),
                           !.pos = Append(@, i),
                           !.resent = @ + 1,
                           !.timer = @ \o (IF Load8(r.mem, aTimerRunning(idx)) /= 0
                                           THEN <<"stop", "start">>
                                           ELSE <<"start">>),
                           !.mem = Store8(r.mem, aTimerRunning(idx), 1),
                           !.idx = @ \cup {idx}],
                 i + 1)
          ELSE ResendLoop([r EXCEPT !.idx = @ \cup {idx}], i + 1)

A_timerinterrupt(m) == ResendLoop(Result(m), Load32(m, aBase))

(***************************************************************************)
(* Receiver B                                                              *)
(***************************************************************************)
\* for (i = B_base; i < B_base + WINDOWSIZE; i++) if (packet.seqnum == (i % SEQSPACE)) ...
\* the first i of the loop that matches, or the i the loop ends with
RECURSIVE WindowScan(_, _, _)
WindowScan(m, seqnum, i) ==
  IF i >= Load32(m, bBase) + WINDOWSIZE THEN i
  ELSE IF seqnum = CRem(i, SEQSPACE) THEN i
  ELSE WindowScan(m, seqnum, i + 1)

\* InWindow with a window of WINDOWSIZE - 1 positions
InWindow_Short(m, seqnum) ==
  WindowScan(m, seqnum, Load32(m, bBase)) < Load32(m, bBase) + WINDOWSIZE - 1

InWindow(m, seqnum) ==
  WindowScan(m, seqnum, Load32(m, bBase)) < Load32(m, bBase) + WINDOWSIZE

\* LastAck without the case of B_base = 0
LastAck_NoWrap(m) == CRem(Load32(m, bBase) - 1, SEQSPACE)

LastAck(m) ==
  IF Load32(m, bBase) = 0 THEN SEQSPACE - 1
  ELSE CRem(Load32(m, bBase) - 1, SEQSPACE)

\* while (B_received[B_base % SEQSPACE]) { tolayer5(...); B_received[idx] = 0; B_base++; }
RECURSIVE DeliverLoop(_)
DeliverLoop(r) ==
  LET idx == CRem(Load32(r.mem, bBase), SEQSPACE)
  IN IF Load8(r.mem, bReceived(idx)) /= 0
     THEN DeliverLoop(
            [r EXCEPT !.dlv = Append(@, LoadPkt(r.mem, bBuffer(idx)).payload),
                      !.mem = Store32(Store8(r.mem, bReceived(idx), 0), bBase,
                                      Load32(Store8(r.mem, bReceived(idx), 0), bBase) + 1),
                      !.idx = @ \cup {idx}])
     ELSE [r EXCEPT !.idx = @ \cup {idx}]

B_input(m, packet) ==
  IF ~IsCorrupted(packet) /\ InWindow(m, packet.seqnum)
  THEN LET idx == packet.seqnum
           m1 == IF Load8(m, bReceived(idx)) = 0
                 THEN Store8(StorePkt(m, bBuffer(idx), packet), bReceived(idx), 1)
                 ELSE m
       IN DeliverLoop([Result(m1) EXCEPT
                         !.sent = <<MkPkt(NOTINUSE, packet.seqnum, Zeros)>>,
                         !.pos = <<WindowScan(m, packet.seqnum, Load32(m, bBase))>>,
                         !.idx = {idx}])
  ELSE DeliverLoop([Result(m) EXCEPT
                      !.sent = <<MkPkt(NOTINUSE, LastAck(m), Zeros)>>,
                      !.pos = <<Load32(m, bBase) - 1>>])

(***************************************************************************)
(* The emulator: one timer for A, one FIFO channel per direction that may  *)
(* lose or corrupt a unit, the statistics counters, layers 5 of A and B    *)
(***************************************************************************)
\* starttimer(A, RTT) / stoptimer(A) on the single alarm of A
RECURSIVE TimerAfter(_, _)
TimerAfter(on, calls) ==
  IF calls = <<>> THEN on
  ELSE TimerAfter(Head(calls) = "start", Tail(calls))

\* a unit damaged in transit: one field overwritten, the checksum kept
CorruptKinds == {"payload", "seqnum", "acknum"}

Corrupt(p, kind) ==
  CASE kind = "payload" -> [p EXCEPT !.payload[1] = IF @ = 90 THEN 91 ELSE 90]
    [] kind = "seqnum" -> [p EXCEPT !.seqnum = 999999]
    [] kind = "acknum" -> [p EXCEPT !.acknum = 999999]

\* what the channel may hold after tolayer3 was called with each unit of
\* r.sent in turn, from the k-th on: every unit is lost, queued as it is, or
\* queued damaged (every damage is treated alike by the endpoints, so the
\* channel damages the payload).  A queued unit keeps the position it was
\* sent for.
RECURSIVE SendAll(_, _, _)
SendAll(ch, r, k) ==
  IF k > Len(r.sent) THEN {ch}
  ELSE SendAll(ch, r, k + 1)
       \cup (IF Len(ch) < MaxChan
             THEN UNION {SendAll(Append(ch, [pkt |-> q, pos |-> r.pos[k]]), r, k + 1) :
                           q \in {r.sent[k], Corrupt(r.sent[k], "payload")}}
             ELSE {})

\* the k-th message of layer 5: its number in the first byte, a larger
\* number in the fifth, zeros elsewhere
Msg(k) == [i \in 1..PAYLOADLEN |-> IF i = 1 THEN k ELSE IF i = 5 THEN k + 9 ELSE 0]

Messages == {Msg(k) : k \in 1..(MaxMsgs + 1)}

Init ==
  /\ layout \in Layouts
  /\ mem = InitMem(layout)
  /\ timerA = FALSE
  /\ window_full = 0
  /\ total_ACKs_received = 0
  /\ packets_resent = 0
  /\ chanAB = <<>>
  /\ chanBA = <<>>
  /\ accepted = <<>>
  /\ delivered = <<>>

\* the effect of a handler call with result r on everything but the channels
\* and the record of accepted messages
Effect(r, timerBefore) ==
  /\ mem' = r.mem
  /\ timerA' = TimerAfter(timerBefore, r.timer)
  /\ window_full' = window_full + r.full
  /\ total_ACKs_received' = total_ACKs_received + r.acks
  /\ packets_resent' = packets_resent + r.resent
  /\ delivered' = delivered \o r.dlv
  /\ layout' = layout

\* layer 5 of A calls A_output(message)
OutputCall(message, r) ==
  /\ IF r.full = 1 THEN window_full < MaxDrops ELSE Len(accepted) < MaxMsgs
  /\ Effect(r, timerA)
  /\ accepted' = IF r.full = 1 THEN accepted ELSE Append(accepted, message)

\* the alarm of A expires: A_timerinterrupt()
TimerCall(r) ==
  /\ timerA
  /\ packets_resent < MaxResent
  /\ packets_resent + r.resent <= MaxResent
  /\ Effect(r, FALSE)
  /\ accepted' = accepted

\* a unit arrives at A or B: A_input(packet), B_input(packet)
InputCall(r) ==
  /\ Len(delivered) + Len(r.dlv) <= MaxMsgs + 1
  /\ total_ACKs_received + r.acks <= MaxMsgs
  /\ Effect(r, timerA)
  /\ accepted' = accepted

(***************************************************************************)
(* The two endpoints joined by the channels                                *)
(***************************************************************************)
Output ==
  LET message == Msg(Len(accepted) + 1)
      r == A_output(mem, message)
  IN /\ OutputCall(message, r)
     /\ chanAB' \in SendAll(chanAB, r, 1)
     /\ chanBA' = chanBA

Timeout ==
  LET r == A_timerinterrupt(mem)
  IN /\ TimerCall(r)
     /\ chanAB' \in SendAll(chanAB, r, 1)
     /\ chanBA' = chanBA

ArriveB ==
  /\ chanAB /= <<>>
  /\ LET r == B_input(mem, Head(chanAB).pkt)
     IN /\ InputCall(r)
        /\ chanAB' = Tail(chanAB)
        /\ chanBA' \in SendAll(chanBA, r, 1)

ArriveA ==
  /\ chanBA /= <<>>
  /\ InputCall(A_input(mem, Head(chanBA).pkt))
  /\ chanBA' = Tail(chanBA)
  /\ chanAB' = chanAB

Next == Output \/ Timeout \/ ArriveB \/ ArriveA

Spec == Init /\ [][Next]_vars

(***************************************************************************)
(* The sender alone, called with any message and any acknowledgment        *)
(***************************************************************************)
AckPkt(a) == MkPkt(NOTINUSE, a, Zeros)

\* an acknowledgment of any sequence number, intact or damaged in any field
\* (a damaged acknum may still name a sequence number)
AckInputs ==
  {AckPkt(a) : a \in 0..(SEQSPACE - 1)}
  \cup {[AckPkt(a) EXCEPT !.acknum = (a + 1) % SEQSPACE] : a \in 0..(SEQSPACE - 1)}
  \cup {Corrupt(AckPkt(a), kind) : a \in 0..(SEQSPACE - 1), kind \in CorruptKinds}

SenderOutput ==
  LET message == Msg(Len(accepted) + 1)
  IN OutputCall(message, A_output(mem, message)) /\ UNCHANGED <<chanAB, chanBA>>

SenderInput ==
  \E packet \in AckInputs :
    InputCall(A_input(mem, packet)) /\ UNCHANGED <<chanAB, chanBA>>

SenderTimeout == TimerCall(A_timerinterrupt(mem)) /\ UNCHANGED <<chanAB, chanBA>>

NextA == SenderOutput \/ SenderInput \/ SenderTimeout

SpecA == Init /\ [][NextA]_vars

(***************************************************************************)
(* The receiver alone, called with any data unit                           *)
(***************************************************************************)
\* the data unit of every sequence number, intact or damaged in any field
DataUnits ==
  {MkPkt(s, NOTINUSE, Msg(s + 1)) : s \in 0..(SEQSPACE - 1)}

DataInputs ==
  DataUnits \cup {Corrupt(p, kind) : p \in DataUnits, kind \in CorruptKinds}

ReceiverInput ==
  \E packet \in DataInputs :
    InputCall(B_input(mem, packet)) /\ UNCHANGED <<chanAB, chanBA>>

NextB == ReceiverInput

SpecB == Init /\ [][NextB]_vars

(***************************************************************************)
(* Properties                                                              *)
(***************************************************************************)
\* C1: the payloads B_input has passed to tolayer5 are at all times a prefix
\* of the messages A_output has accepted: in order, no gap, no duplicate.
C1_DeliveredIsPrefix ==
  /\ Len(delivered) <= Len(accepted)
  /\ \A i \in 1..Len(delivered) : i <= Len(accepted) => delivered[i] = accepted[i]

\* the accepted messages that were never passed to tolayer5
Undelivered ==
  {i \in 1..Len(accepted) : \A j \in 1..Len(delivered) : delivered[j] /= accepted[i]}

\* C2: every accepted message is eventually delivered; stated on finite runs:
\* while an accepted message is undelivered, the timer of A is armed or a
\* unit is in flight, so a retransmission or a delivery is still to come.
C2_UndeliveredIsPending ==
  Undelivered /= {} => (timerA \/ chanAB /= <<>> \/ chanBA /= <<>>)

\* C3: in every sender state A_nextseq - A_base <= WINDOWSIZE.
C3_WindowBound == A_nextseq - A_base <= WINDOWSIZE

\* C4: sequence numbers never alias.  The unit B_input is about to accept and
\* buffer for position n is the sender's unit of position n, and the
\* acknowledgment A_input is about to record for position n was sent by the
\* receiver for position n.
C4_NoAliasing ==
  /\ chanAB /= <<>> =>
       LET u == Head(chanAB)
       IN (/\ ~IsCorrupted(u.pkt)
           /\ InWindow(mem, u.pkt.seqnum)
           /\ B_received(u.pkt.seqnum) = 0)
          => WindowScan(mem, u.pkt.seqnum, B_base) = u.pos
  /\ chanBA /= <<>> =>
       LET u == Head(chanBA)
           n == AckScan(mem, u.pkt.acknum, A_base)
       IN (/\ ~IsCorrupted(u.pkt)
           /\ n < A_nextseq
           /\ A_acked(u.pkt.acknum) = 0)
          => n = u.pos

\* the logical positions the sender holds, and those not yet acknowledged
Outstanding == A_base..(A_nextseq - 1)

Unacked == {n \in Outstanding : A_acked(n % SEQSPACE) = 0}

\* C5: a call of A_timerinterrupt transmits exactly the units of the
\* unacknowledged positions in [A_base, A_nextseq), each once and as it was
\* first sent, and changes neither A_base, A_nextseq nor an acknowledged flag.
C5_TimeoutResendsUnacked ==
  timerA =>
    LET r == A_timerinterrupt(mem)
    IN /\ Len(r.sent) = Cardinality(Unacked)
       /\ {r.pos[k] : k \in 1..Len(r.pos)} = Unacked
       /\ \A k \in 1..Len(r.sent) :
            /\ r.pos[k] + 1 \in 1..Len(accepted)
            /\ r.sent[k] = MkPkt(r.pos[k] % SEQSPACE, NOTINUSE, accepted[r.pos[k] + 1])
       /\ Load32(r.mem, aBase) = A_base
       /\ Load32(r.mem, aNextseq) = A_nextseq
       /\ \A n \in Outstanding :
            Load8(r.mem, aAcked(n % SEQSPACE)) = A_acked(n % SEQSPACE)

\* the first position from n up to A_nextseq that is not acknowledged
RECURSIVE FirstUnacked(_)
FirstUnacked(n) ==
  IF n >= A_nextseq \/ A_acked(n % SEQSPACE) = 0 THEN n ELSE FirstUnacked(n + 1)

\* C6: an intact acknowledgment of a not yet acknowledged position p of the
\* window is recorded without moving A_base when p is not A_base; when p is
\* A_base, A_base moves to the first unacknowledged position after p, at most
\* A_nextseq, and the flags of the positions passed are cleared.  After every
\* A_input A_base = A_nextseq or position A_base is unacknowledged.
C6_AckSlidesBase ==
  \A packet \in AckInputs :
    LET r == A_input(mem, packet)
        p == AckScan(mem, packet.acknum, A_base)
        newBase == Load32(r.mem, aBase)
    IN /\ (~IsCorrupted(packet) /\ p < A_nextseq /\ A_acked(p % SEQSPACE) = 0) =>
            IF p /= A_base
            THEN /\ newBase = A_base
                 /\ Load8(r.mem, aAcked(p % SEQSPACE)) /= 0
            ELSE /\ newBase = FirstUnacked(p + 1)
                 /\ \A n \in p..(newBase - 1) : Load8(r.mem, aAcked(n % SEQSPACE)) = 0
       /\ \/ newBase = Load32(r.mem, aNextseq)
          \/ Load8(r.mem, aAcked(newBase % SEQSPACE)) = 0

\* C7: a call of B_input delivers exactly the payloads buffered for the
\* positions from the old B_base up to the new one, in order, and leaves the
\* slot of the new B_base not received; an accepted unit that is not the one
\* of position B_base delivers nothing and leaves B_base as it is.
C7_DrainIsMaximalPrefix ==
  \A packet \in DataInputs :
    LET r == B_input(mem, packet)
        newBase == Load32(r.mem, bBase)
    IN /\ newBase >= B_base
       /\ Len(r.dlv) = newBase - B_base
       /\ \A k \in 1..Len(r.dlv) :
            r.dlv[k] = LoadPkt(r.mem, bBuffer((B_base + k - 1) % SEQSPACE)).payload
       /\ Load8(r.mem, bReceived(newBase % SEQSPACE)) = 0
       /\ (/\ ~IsCorrupted(packet)
           /\ InWindow(mem, packet.seqnum)
           /\ packet.seqnum /= B_base % SEQSPACE)
          => (r.dlv = <<>> /\ newBase = B_base)

\* C8: called with A_nextseq = A_base + WINDOWSIZE, A_output drops the
\* message: nothing is sent, no timer call is made, the sender state is
\* unchanged and window_full grows by one; called with A_nextseq below that,
\* it sends the message and leaves window_full alone.
C8_WindowFullDrops ==
  \A message \in Messages :
    LET r == A_output(mem, message)
    IN /\ A_nextseq = A_base + WINDOWSIZE =>
            (r.sent = <<>> /\ r.timer = <<>> /\ r.mem = mem /\ r.full = 1)
       /\ A_nextseq < A_base + WINDOWSIZE =>
            /\ r.full = 0
            /\ r.sent = <<MkPkt(A_nextseq % SEQSPACE, NOTINUSE, message)>>

\* a full window in which a message was dropped
C8_Witness ==
  /\ A_nextseq = A_base + WINDOWSIZE
  /\ window_full >= 1
  /\ Len(accepted) >= WINDOWSIZE

\* C9: a unit whose checksum field differs from its computed checksum leaves
\* the sender state as it is, sends nothing and makes no timer call, whatever
\* its acknum.
C9_CorruptedAckIgnored ==
  \A packet \in AckInputs :
    IsCorrupted(packet) =>
      LET r == A_input(mem, packet)
      IN r.mem = mem /\ r.sent = <<>> /\ r.timer = <<>> /\ r.acks = 0

\* a damaged unit names an outstanding, unacknowledged position whose timer
\* flag is set while the timer runs and other acknowledgments were counted
C9_Witness ==
  /\ timerA
  /\ total_ACKs_received >= 1
  /\ \E packet \in AckInputs :
       /\ IsCorrupted(packet)
       /\ packet.acknum \in 0..(WINDOWSIZE - 1)
       /\ AckScan(mem, packet.acknum, A_base) < A_nextseq
       /\ A_acked(packet.acknum) = 0
       /\ A_timer_running(packet.acknum) /= 0

\* C10: for a unit that is corrupted or whose seqnum is the number of no
\* position in [B_base, B_base + WINDOWSIZE), B_input changes no buffered
\* unit, sets no received flag and sends exactly one acknowledgment, with
\* acknum (B_base - 1) mod SEQSPACE and a valid checksum.
C10_DiscardReacknowledges ==
  \A packet \in DataInputs :
    (\/ IsCorrupted(packet)
     \/ \A n \in B_base..(B_base + WINDOWSIZE - 1) : n % SEQSPACE /= packet.seqnum)
    => LET r == B_input(mem, packet)
       IN /\ Len(r.sent) = 1
          /\ r.sent[1].acknum = (B_base - 1) % SEQSPACE
          /\ B_base = 0 => r.sent[1].acknum = SEQSPACE - 1
          /\ r.sent[1].checksum = ComputeChecksum(r.sent[1])
          /\ \A i \in 0..(SEQSPACE - 1) :
               /\ LoadPkt(r.mem, bBuffer(i)) = B_buffer(i)
               /\ B_received(i) = 0 => Load8(r.mem, bReceived(i)) = 0

\* units were delivered, a unit is buffered out of order, and both an intact
\* unit outside the window and a damaged unit inside it can arrive
C10_Witness ==
  /\ B_base >= 1
  /\ \E i \in 0..(WINDOWSIZE - 1) : B_received(i) /= 0
  /\ \E packet \in DataInputs :
       /\ ~IsCorrupted(packet)
       /\ \A n \in B_base..(B_base + WINDOWSIZE - 1) : n % SEQSPACE /= packet.seqnum
  /\ \E packet \in DataInputs :
       /\ IsCorrupted(packet)
       /\ packet.seqnum = B_base % SEQSPACE

\* the timer calls of one handler, made from the timer state on: no
\* starttimer is called while the timer runs
RECURSIVE StartsOnlyWhenOff(_, _)
StartsOnlyWhenOff(on, calls) ==
  IF calls = <<>> THEN TRUE
  ELSE /\ ~(on /\ Head(calls) = "start")
       /\ StartsOnlyWhenOff(Head(calls) = "start", Tail(calls))

\* C11: the sender never calls starttimer while the single shared timer is
\* running: A_output starts it only when it is off, and A_timerinterrupt,
\* entered with the timer expired, starts it only once it is off or stopped.
C11_NoStartWhileRunning ==
  /\ \A message \in Messages :
       StartsOnlyWhenOff(timerA, A_output(mem, message).timer)
  /\ timerA => StartsOnlyWhenOff(FALSE, A_timerinterrupt(mem).timer)

\* C12: after a sender entry point has returned, the timer is running
\* whenever a position in [A_base, A_nextseq) is unacknowledged.
C12_UnackedHasTimer == Unacked /= {} => timerA

\* an intact unit of position n, or an intact acknowledgment sent for it, is
\* in flight; nothing at all is in flight for position n
InFlightIntact(n) ==
  \/ \E j \in 1..Len(chanAB) : chanAB[j].pos = n /\ ~IsCorrupted(chanAB[j].pkt)
  \/ \E j \in 1..Len(chanBA) : chanBA[j].pos = n /\ ~IsCorrupted(chanBA[j].pkt)

NothingInFlight(n) ==
  /\ \A j \in 1..Len(chanAB) : chanAB[j].pos /= n
  /\ \A j \in 1..Len(chanBA) : chanBA[j].pos /= n

\* C13: a unit that was not lost or damaged, and whose acknowledgment was
\* not, is never retransmitted, also when other units are outstanding; stated
\* on finite runs: when the timer expires before anything was retransmitted,
\* because the unit of another position was lost, A_timerinterrupt does not
\* retransmit a position whose unit or acknowledgment is intact in flight.
C13_IntactUnitNotResent ==
  (timerA /\ packets_resent = 0) =>
    LET r == A_timerinterrupt(mem)
    IN \A k \in 1..Len(r.pos) :
         ~(/\ InFlightIntact(r.pos[k])
           /\ \E m \in Unacked \ {r.pos[k]} : NothingInFlight(m))

\* C14: A_base <= A_nextseq in every sender state, and no call of a sender
\* entry point decreases A_base or A_nextseq or returns with A_base above
\* A_nextseq.
C14_BaseNextseqMonotone ==
  /\ A_base <= A_nextseq
  /\ \A r \in {A_output(mem, message) : message \in Messages}
              \cup {A_input(mem, packet) : packet \in AckInputs}
              \cup (IF timerA THEN {A_timerinterrupt(mem)} ELSE {}) :
       /\ Load32(r.mem, aBase) >= A_base
       /\ Load32(r.mem, aNextseq) >= A_nextseq
       /\ Load32(r.mem, aBase) <= Load32(r.mem, aNextseq)

\* C15: the input handlers are idempotent under duplicates.  B_input called
\* twice in succession with the same intact data unit leaves B_base, the
\* received flags and the buffered units after the second call as after the
\* first, delivers nothing in the second call and acknowledges the same
\* number; A_input called twice in succession with the same intact
\* acknowledgment leaves the sender state after the second call as after the
\* first.
C15_DuplicateIdempotent ==
  /\ \A packet \in DataInputs :
       ~IsCorrupted(packet) =>
         LET r1 == B_input(mem, packet)
             r2 == B_input(r1.mem, packet)
         IN /\ Load32(r2.mem, bBase) = Load32(r1.mem, bBase)
            /\ \A i \in 0..(WINDOWSIZE - 1) :
                 /\ Load8(r2.mem, bReceived(i)) = Load8(r1.mem, bReceived(i))
                 /\ LoadPkt(r2.mem, bBuffer(i)) = LoadPkt(r1.mem, bBuffer(i))
            /\ r2.dlv = <<>>
            /\ Len(r1.sent) = 1 /\ Len(r2.sent) = 1
            /\ r2.sent[1].acknum = r1.sent[1].acknum
  /\ \A packet \in AckInputs :
       ~IsCorrupted(packet) =>
         LET r1 == A_input(mem, packet)
             r2 == A_input(r1.mem, packet)
         IN /\ Load32(r2.mem, aBase) = Load32(r1.mem, aBase)
            /\ Load32(r2.mem, aNextseq) = Load32(r1.mem, aNextseq)
            /\ \A i \in 0..(WINDOWSIZE - 1) :
                 /\ Load8(r2.mem, aAcked(i)) = Load8(r1.mem, aAcked(i))
                 /\ Load8(r2.mem, aTimerRunning(i)) = Load8(r1.mem, aTimerRunning(i))
                 /\ LoadPkt(r2.mem, aWindow(i)) = LoadPkt(r1.mem, aWindow(i))
            /\ r2.acks = 0

(***************************************************************************)
(* Units examined by IsCorrupted: one correctly checksummed unit is in     *)
(* flight in each direction; it arrives as it is or with one field changed *)
(***************************************************************************)
FieldValues == NOTINUSE..SEQSPACE

ByteValues == {0, 1, 127, 128, 255}

CheckedUnits ==
  {MkPkt(s, a, [i \in 1..PAYLOADLEN |-> b]) :
     s \in FieldValues, a \in FieldValues, b \in ByteValues}

\* the units obtained from u by changing exactly one of seqnum, acknum or one
\* payload byte to a different value, the checksum field kept
Damaged(u) ==
  {[u EXCEPT !.seqnum = v] : v \in FieldValues \ {u.seqnum}}
  \cup {[u EXCEPT !.acknum = v] : v \in FieldValues \ {u.acknum}}
  \cup UNION {{[u EXCEPT !.payload[i] = b] : b \in ByteValues \ {u.payload[i]}} :
                i \in 1..PAYLOADLEN}

InitC ==
  /\ layout \in Layouts
  /\ mem = InitMem(layout)
  /\ timerA = FALSE
  /\ window_full = 0
  /\ total_ACKs_received = 0
  /\ packets_resent = 0
  /\ \E u \in CheckedUnits :
       /\ chanAB = <<[pkt |-> u, pos |-> 0]>>
       /\ chanBA = <<[pkt |-> u, pos |-> 0]>>
  /\ accepted = <<>>
  /\ delivered = <<>>

CheckedArriveB ==
  /\ chanAB /= <<>>
  /\ \E d \in {Head(chanAB).pkt} \cup Damaged(Head(chanAB).pkt) :
       LET r == B_input(mem, d)
       IN /\ InputCall(r)
          /\ chanAB' = Tail(chanAB)
          /\ chanBA' \in SendAll(chanBA, r, 1)

CheckedArriveA ==
  /\ chanBA /= <<>>
  /\ \E d \in {Head(chanBA).pkt} \cup Damaged(Head(chanBA).pkt) :
       /\ InputCall(A_input(mem, d))
       /\ chanBA' = Tail(chanBA)
       /\ chanAB' = chanAB

NextC == CheckedArriveB \/ CheckedArriveA

SpecC == InitC /\ [][NextC]_vars

\* C16: IsCorrupted is false for a correctly checksummed unit and true for
\* every unit obtained from it by changing exactly one of seqnum, acknum or
\* one payload byte to a different value with the checksum field kept.
C16_SingleChangeDetected ==
  \A e \in {chanAB[j] : j \in 1..Len(chanAB)} \cup {chanBA[j] : j \in 1..Len(chanBA)} :
    e.pkt \in CheckedUnits =>
      /\ ~IsCorrupted(e.pkt)
      /\ \A d \in Damaged(e.pkt) : IsCorrupted(d)

\* a unit of sequence number 0 with the largest payload bytes is still in
\* flight to A, and B_input, called at B_base = 0 with that unit or a changed
\* one, has neither delivered nor buffered it: the unit had been changed and
\* IsCorrupted said so
C16_Witness ==
  /\ chanAB = <<>>
  /\ chanBA /= <<>>
  /\ Head(chanBA).pkt \in CheckedUnits
  /\ Head(chanBA).pkt.seqnum = 0
  /\ Head(chanBA).pkt.payload[PAYLOADLEN] = 255
  /\ B_base = 0
  /\ delivered = <<>>
  /\ \A i \in 0..(WINDOWSIZE - 1) : B_received(i) = 0

\* C18: every index used on A_window, A_acked, A_timer_running, B_buffer and
\* B_received by a call of A_output, A_input, A_timerinterrupt or B_input
\* lies in 0..WINDOWSIZE-1.
C18_IndexInBounds ==
  \A r \in {A_output(mem, message) : message \in Messages}
           \cup {A_input(mem, packet) : packet \in AckInputs}
           \cup (IF timerA THEN {A_timerinterrupt(mem)} ELSE {})
           \cup {B_input(mem, packet) : packet \in DataInputs} :
    r.idx \subseteq 0..(WINDOWSIZE - 1)

\* C19: in every joint state A_base <= B_base, and every position the sender
\* holds as acknowledged is one the receiver has delivered or holds as
\* received.
C19_SenderBehindReceiver ==
  /\ A_base <= B_base
  /\ \A n \in Outstanding :
       A_acked(n % SEQSPACE) /= 0 => (n < B_base \/ B_received(n % SEQSPACE) /= 0)

\* C20: for every intact arriving unit with seqnum in 0..SEQSPACE-1, B_input
\* sends exactly one acknowledgment and its acknum is the unit's seqnum,
\* whether the unit is in the window or outside it.
C20_AckEchoesSeqnum ==
  \A packet \in DataInputs :
    (~IsCorrupted(packet) /\ packet.seqnum \in 0..(SEQSPACE - 1)) =>
      LET r == B_input(mem, packet)
      IN /\ Len(r.sent) = 1
         /\ r.sent[1].acknum = packet.seqnum
         /\ r.sent[1].seqnum = NOTINUSE
         /\ ~IsCorrupted(r.sent[1])

\* the receiver has delivered a whole round of sequence numbers, and an
\* intact unit of the one number outside its window can arrive next to
\* intact units inside it
C20_Witness ==
  /\ B_base = SEQSPACE
  /\ Len(delivered) = SEQSPACE
  /\ \E packet \in DataUnits :
       /\ packet.seqnum = SEQSPACE - 1
       /\ ~InWindow(mem, packet.seqnum)
  /\ \E packet \in DataUnits : InWindow(mem, packet.seqnum)

(***************************************************************************)
(* The variant src/ass2/sr.c: the unit carries the logical sequence number *)
(* unreduced and the slots are indexed modulo WINDOWSIZE.  Its static      *)
(* objects are held in mem as a record; no access leaves an array, so the  *)
(* storage layout plays no part.                                           *)
(***************************************************************************)
\* (int)packet.payload[i]: char is signed in the build of this platform
Ass2_CharToInt(b) == IF b >= 128 THEN b - 256 ELSE b

Ass2_ComputeChecksum(packet) ==
  packet.seqnum + packet.acknum
  + SumBytes([i \in 1..PAYLOADLEN |-> Ass2_CharToInt(packet.payload[i])])

Ass2_IsCorrupted(packet) == packet.checksum /= Ass2_ComputeChecksum(packet)

Ass2_MkPkt(seq, ack, payload) ==
  LET p == [seqnum |-> seq, acknum |-> ack, checksum |-> 0, payload |-> payload]
  IN [p EXCEPT !.checksum = Ass2_ComputeChecksum(p)]

Ass2_Slots == 0..(WINDOWSIZE - 1)

\* zero-initialised statics; A_init and B_init store zeros again
Ass2_InitMem ==
  LET zero == [seqnum |-> 0, acknum |-> 0, checksum |-> 0, payload |-> Zeros]
  IN [A_window |-> [i \in Ass2_Slots |-> zero],
      A_acked |-> [i \in Ass2_Slots |-> FALSE],
      A_timer_running |-> [i \in Ass2_Slots |-> FALSE],
      A_base |-> 0,
      A_nextseq |-> 0,
      B_buffer |-> [i \in Ass2_Slots |-> zero],
      B_received |-> [i \in Ass2_Slots |-> FALSE],
      B_base |-> 0]

Ass2_A_output(m, message) ==
  IF m.A_nextseq < m.A_base + WINDOWSIZE
  THEN LET seq == CRem(m.A_nextseq, WINDOWSIZE)
           p == Ass2_MkPkt(m.A_nextseq, NOTINUSE, message)
           running == m.A_timer_running[seq]
       IN [Result([m EXCEPT !.A_window[seq] = p,
                            !.A_acked[seq] = FALSE,
                            !.A_timer_running[seq] = TRUE,
                            !.A_nextseq = @ + 1])
             EXCEPT !.sent = <<p>>, !.pos = <<m.A_nextseq>>,
                    !.timer = IF running THEN <<>> ELSE <<"start">>,
                    !.idx = {seq}]
  ELSE [Result(m) EXCEPT !.full = 1]

\* while (A_acked[A_base % WINDOWSIZE]) { A_acked[A_base % WINDOWSIZE] = false; A_base++; }
RECURSIVE Ass2_SlideBase(_)
Ass2_SlideBase(r) ==
  LET b == CRem(r.mem.A_base, WINDOWSIZE)
  IN IF r.mem.A_acked[b]
     THEN Ass2_SlideBase([r EXCEPT !.mem.A_acked[b] = FALSE,
                                   !.mem.A_base = @ + 1,
                                   !.idx = @ \cup {b}])
     ELSE [r EXCEPT !.idx = @ \cup {b}]

Ass2_A_input(m, packet) ==
  IF /\ ~Ass2_IsCorrupted(packet)
     /\ packet.acknum >= m.A_base
     /\ packet.acknum < m.A_nextseq
  THEN LET idx == CRem(packet.acknum, WINDOWSIZE)
       IN IF ~m.A_acked[idx]
          THEN Ass2_SlideBase(
                 [Result([m EXCEPT !.A_acked[idx] = TRUE,
                                   !.A_timer_running[idx] = FALSE])
                    EXCEPT !.acks = 1,
                           !.timer = IF m.A_timer_running[idx] THEN <<"stop">> ELSE <<>>,
                           !.idx = {idx}])
          ELSE [Result(m) EXCEPT !.idx = {idx}]
  ELSE Result(m)

\* for (seqnum = A_base; seqnum < A_nextseq; seqnum++) { idx = seqnum % WINDOWSIZE; ... }
RECURSIVE Ass2_ResendLoop(_, _)
Ass2_ResendLoop(r, seqnum) ==
  IF seqnum >= r.mem.A_nextseq THEN r
  ELSE LET idx == CRem(seqnum, WINDOWSIZE)
       IN IF ~r.mem.A_acked[idx]
          THEN Ass2_ResendLoop(
                 [r EXCEPT !.sent = Append(@, r.mem.A_window[idx]),
                           !.pos = Append(@, seqnum),
                           !.resent = @ + 1,
                           !.timer = @ \o (IF r.mem.A_timer_running[idx]
                                           THEN <<"stop", "start">>
                                           ELSE <<"start">>),
                           !.mem.A_timer_running[idx] = TRUE,
                           !.idx = @ \cup {idx}],
                 seqnum + 1)
          ELSE Ass2_ResendLoop([r EXCEPT !.idx = @ \cup {idx}], seqnum + 1)

Ass2_A_timerinterrupt(m) == Ass2_ResendLoop(Result(m), m.A_base)

\* while (B_received[B_base % WINDOWSIZE]) { tolayer5(...); B_received[idx] = false; B_base++; }
RECURSIVE Ass2_DeliverLoop(_)
Ass2_DeliverLoop(r) ==
  LET idx == CRem(r.mem.B_base, WINDOWSIZE)
  IN IF r.mem.B_received[idx]
     THEN Ass2_DeliverLoop([r EXCEPT !.dlv = Append(@, r.mem.B_buffer[idx].payload),
                                     !.mem.B_received[idx] = FALSE,
                                     !.mem.B_base = @ + 1,
                                     !.idx = @ \cup {idx}])
     ELSE [r EXCEPT !.idx = @ \cup {idx}]

\* the branch of B_input that buffers and acknowledges the unit
Ass2_Accept(m, packet) ==
  LET idx == CRem(packet.seqnum, WINDOWSIZE)
      m1 == IF ~m.B_received[idx]
            THEN [m EXCEPT !.B_buffer[idx] = packet, !.B_received[idx] = TRUE]
            ELSE m
  IN Ass2_DeliverLoop([Result(m1) EXCEPT
                         !.sent = <<Ass2_MkPkt(NOTINUSE, packet.seqnum, Zeros)>>,
                         !.pos = <<packet.seqnum>>,
                         !.idx = {idx}])

\* the branch of B_input that acknowledges the last unit delivered in order
Ass2_Discard(m) ==
  LET lastack == IF m.B_base = 0 THEN SEQSPACE - 1 ELSE m.B_base - 1
  IN Ass2_DeliverLoop([Result(m) EXCEPT
                         !.sent = <<Ass2_MkPkt(NOTINUSE, lastack, Zeros)>>,
                         !.pos = <<lastack>>])

\* B_input without the checksum test
Ass2_B_input_Unchecked(m, packet) ==
  IF packet.seqnum >= m.B_base /\ packet.seqnum < m.B_base + WINDOWSIZE
  THEN Ass2_Accept(m, packet)
  ELSE Ass2_Discard(m)

Ass2_B_input(m, packet) ==
  IF /\ ~Ass2_IsCorrupted(packet)
     /\ packet.seqnum >= m.B_base
     /\ packet.seqnum < m.B_base + WINDOWSIZE
  THEN Ass2_Accept(m, packet)
  ELSE Ass2_Discard(m)

\* the two endpoints of the variant joined by the channels
Ass2_Init ==
  /\ layout = "declared"
  /\ mem = Ass2_InitMem
  /\ timerA = FALSE
  /\ window_full = 0
  /\ total_ACKs_received = 0
  /\ packets_resent = 0
  /\ chanAB = <<>>
  /\ chanBA = <<>>
  /\ accepted = <<>>
  /\ delivered = <<>>

Ass2_Output ==
  LET message == Msg(Len(accepted) + 1)
      r == Ass2_A_output(mem, message)
  IN /\ OutputCall(message, r)
     /\ chanAB' \in SendAll(chanAB, r, 1)
     /\ chanBA' = chanBA

Ass2_Timeout ==
  LET r == Ass2_A_timerinterrupt(mem)
  IN /\ TimerCall(r)
     /\ chanAB' \in SendAll(chanAB, r, 1)
     /\ chanBA' = chanBA

Ass2_ArriveB ==
  /\ chanAB /= <<>>
  /\ LET r == Ass2_B_input(mem, Head(chanAB).pkt)
     IN /\ InputCall(r)
        /\ chanAB' = Tail(chanAB)
        /\ chanBA' \in SendAll(chanBA, r, 1)

Ass2_ArriveA ==
  /\ chanBA /= <<>>
  /\ InputCall(Ass2_A_input(mem, Head(chanBA).pkt))
  /\ chanBA' = Tail(chanBA)
  /\ chanAB' = chanAB

Ass2_Next == Ass2_Output \/ Ass2_Timeout \/ Ass2_ArriveB \/ Ass2_ArriveA

Ass2_Spec == Ass2_Init /\ [][Ass2_Next]_vars

\* C17: in the variant src/ass2/sr.c the payloads delivered by B_input are at
\* all times a prefix of the messages accepted by A_output, and every slot
\* index a handler uses lies in 0..WINDOWSIZE-1.
C17_Ass2PrefixAndSlots ==
  /\ Len(delivered) <= Len(accepted)
  /\ \A i \in 1..Len(delivered) : delivered[i] = accepted[i]
  /\ \A r \in {Ass2_A_output(mem, Msg(Len(accepted) + 1))}
              \cup (IF timerA THEN {Ass2_A_timerinterrupt(mem)} ELSE {})
              \cup (IF chanAB /= <<>> THEN {Ass2_B_input(mem, Head(chanAB).pkt)} ELSE {})
              \cup (IF chanBA /= <<>> THEN {Ass2_A_input(mem, Head(chanBA).pkt)} ELSE {}) :
       r.idx \subseteq Ass2_Slots

\* every slot was used a second time, a unit was retransmitted, and all the
\* messages accepted were delivered
C17_Witness ==
  /\ mem.A_nextseq > WINDOWSIZE
  /\ mem.B_base > WINDOWSIZE
  /\ packets_resent >= 1
  /\ Len(delivered) = Len(accepted)

====
